---- MODULE Spec2Model ----
(***************************************************************************)
(* Model of the todo store of src/db.py: the TodoSchema validator, the     *)
(* SQLite table "todos" (rows and the AUTOINCREMENT counter), and the five *)
(* operations add_todo, list_todos, complete_todo, delete_todo and         *)
(* update_todo_text, each run to completion by a single caller.            *)
(***************************************************************************)
EXTENDS Integers, Sequences, FiniteSets, TLC

\* Bound of the model: add_todo is only offered while fewer than MaxId ids
\* have been assigned.
MaxId == 3

\* Field(..., min_length=1, max_length=255)
MIN_LENGTH == 1
MAX_LENGTH == 255

\* Characters that str.strip() removes (a sample of Python's whitespace).
Whitespace == {" ", "\t", "\n"}

\* A string is held run-length encoded: a sequence of runs [c, n], n >= 1
\* copies of character c, adjacent runs having different characters, so that
\* two strings are equal exactly when their encodings are.
Run(c, n) == [c |-> c, n |-> n]

SetMin(S) == CHOOSE x \in S : \A y \in S : x <= y
SetMax(S) == CHOOSE x \in S : \A y \in S : x >= y

\* Python's None, as returned by delete_todo / update_todo_text.
None == [NoneType |-> TRUE]

\* Texts the caller may pass: empty, whitespace only, " a b\n", 255 and 256
\* letters, a space before 255 letters, 256 spaces.
Texts ==
    { <<>>,
      <<Run(" ", 1), Run("\t", 1)>>,
      <<Run(" ", 1), Run("a", 1), Run(" ", 1), Run("b", 1), Run("\n", 1)>>,
      <<Run("a", MAX_LENGTH)>>,
      <<Run("a", MAX_LENGTH + 1)>>,
      <<Run(" ", 1), Run("b", MAX_LENGTH)>>,
      <<Run(" ", MAX_LENGTH + 1)>> }

\* Ids the caller may pass: negative, zero, assigned and never assigned.
Ids == (0 - 1) .. (MaxId + 1)

----------------------------------------------------------------------------
\* len(v): the number of characters of v.
RECURSIVE len(_)
len(v) == IF v = <<>> THEN 0 ELSE Head(v).n + len(Tail(v))

\* str.strip(): drop leading and trailing whitespace, keep the inside.
strip(v) ==
    LET nonws == {i \in 1..Len(v) : v[i].c \notin Whitespace}
    IN  IF nonws = {} THEN <<>> ELSE SubSeq(v, SetMin(nonws), SetMax(nonws))

\* Field(..., min_length=1) with max_length left out.
title_field_ok_NoMax(v) == len(v) >= MIN_LENGTH

\* title: str = Field(..., min_length=1, max_length=255), checked on the
\* value as passed, before the field validator runs.
title_field_ok(v) == len(v) >= MIN_LENGTH /\ len(v) <= MAX_LENGTH

\* "if not v": only the empty title is refused.
validate_title_raises_EmptyOnly(v) == v = <<>>

\* validate_title raises ValueError on an empty or whitespace-only title.
validate_title_raises(v) == v = <<>> \/ strip(v) = <<>>

\* "return v": the title as passed.
validate_title_NoStrip(v) == v

\* validate_title returns v.strip().
validate_title(v) == strip(v)

\* id: Optional[int] = Field(None, gt=0); idOpt is {} for "not passed"
\* and {i} for id=i.
id_field_ok(idOpt) == \A i \in idOpt : i > 0

\* TodoSchema whose validator result is dropped: the title stays as passed.
TodoSchema_RawTitle(title, idOpt) ==
    IF title_field_ok(title) /\ ~validate_title_raises(title) /\ id_field_ok(idOpt)
    THEN [ok |-> TRUE, title |-> title]
    ELSE [ok |-> FALSE, title |-> <<>>]

\* TodoSchema(title=..., id=...): every field is validated, any failure
\* raises ValidationError; on success the model holds the stripped title.
TodoSchema(title, idOpt) ==
    IF title_field_ok(title) /\ ~validate_title_raises(title) /\ id_field_ok(idOpt)
    THEN [ok |-> TRUE, title |-> validate_title(title)]
    ELSE [ok |-> FALSE, title |-> <<>>]

----------------------------------------------------------------------------
\* The database file: the rows of table todos and sqlite_sequence.seq.
\* A connection holds the committed file, its own working copy, and the
\* cursor's rowcount and lastrowid after the last statement.
RowIds(d) == {r.id : r \in d.rows}

Range(f) == {f[i] : i \in DOMAIN f}

connect(d) == [committed |-> d, work |-> d, rowcount |-> 0 - 1, lastrowid |-> 0]

commit(c) == [c EXCEPT !.committed = c.work]

\* close() discards whatever was not committed.
close(c) == c.committed

\* A plain INTEGER PRIMARY KEY: one more than the largest rowid in the table.
next_rowid_NoAutoincrement(d) == SetMax(RowIds(d) \cup {0}) + 1

\* INTEGER PRIMARY KEY AUTOINCREMENT: one more than the largest rowid ever
\* used in the table.
next_rowid(d) == SetMax(RowIds(d) \cup {d.seq}) + 1

\* INSERT INTO todos (text) VALUES (?): completed takes DEFAULT 0.
sql_insert(c, text) ==
    LET n == next_rowid(c.work)
    IN  [c EXCEPT !.work = [rows |-> c.work.rows \cup
                                     {[id |-> n, text |-> text, completed |-> 0]},
                            seq  |-> n],
                  !.rowcount = 1,
                  !.lastrowid = n]

\* The rows an UPDATE / DELETE ... WHERE id = ? matches; cursor.rowcount is
\* their number, whether or not the UPDATE changed their value.
matching(c, id) == {r \in c.work.rows : r.id = id}

\* UPDATE todos SET completed = 1 (the WHERE clause left out).
sql_set_completed_NoWhere(c, id) ==
    [c EXCEPT !.work.rows = {[r EXCEPT !.completed = 1] : r \in c.work.rows},
              !.rowcount = Cardinality(c.work.rows)]

\* UPDATE todos SET completed = 1 WHERE id = ? AND completed = 0.
sql_set_completed_OnlyOpen(c, id) ==
    [c EXCEPT !.work.rows =
        {IF r.id = id THEN [r EXCEPT !.completed = 1] ELSE r : r \in c.work.rows},
              !.rowcount = Cardinality({r \in matching(c, id) : r.completed = 0})]

\* UPDATE todos SET completed = 1 WHERE id = ?
sql_set_completed(c, id) ==
    [c EXCEPT !.work.rows =
        {IF r.id = id THEN [r EXCEPT !.completed = 1] ELSE r : r \in c.work.rows},
              !.rowcount = Cardinality(matching(c, id))]

\* REPLACE INTO todos (id, text) VALUES (?, ?): completed falls back to 0.
sql_set_text_Replace(c, text, id) ==
    [c EXCEPT !.work.rows =
        {IF r.id = id THEN [r EXCEPT !.text = text, !.completed = 0] ELSE r
            : r \in c.work.rows},
              !.rowcount = Cardinality(matching(c, id))]

\* INSERT OR REPLACE: a missing id gets a new record.
sql_set_text_Upsert(c, text, id) ==
    [c EXCEPT !.work.rows =
        {r \in c.work.rows : r.id # id} \cup
        {[id |-> id, text |-> text,
          completed |-> IF matching(c, id) = {} THEN 0
                        ELSE (CHOOSE r \in matching(c, id) : TRUE).completed]},
              !.rowcount = 1]

\* UPDATE todos SET text = ? (the WHERE clause left out).
sql_set_text_NoWhere(c, text, id) ==
    [c EXCEPT !.work.rows = {[r EXCEPT !.text = text] : r \in c.work.rows},
              !.rowcount = Cardinality(c.work.rows)]

\* UPDATE todos SET text = ? WHERE id = ?
sql_set_text(c, text, id) ==
    [c EXCEPT !.work.rows =
        {IF r.id = id THEN [r EXCEPT !.text = text] ELSE r : r \in c.work.rows},
              !.rowcount = Cardinality(matching(c, id))]

\* SELECT * FROM todos WHERE id = ? ; fetchone()
sql_select_one(c, id) ==
    IF matching(c, id) # {}
    THEN CHOOSE r \in c.work.rows : r.id = id
    ELSE None

\* A DELETE that removes nothing.
sql_delete_Noop(c, id) == [c EXCEPT !.rowcount = 0]

\* DELETE FROM todos WHERE id = ?
sql_delete(c, id) ==
    [c EXCEPT !.work.rows = c.work.rows \ matching(c, id),
              !.rowcount = Cardinality(matching(c, id))]

\* ORDER BY id
RECURSIVE order_by_id(_)
order_by_id(rows) ==
    IF rows = {} THEN <<>>
    ELSE LET m == CHOOSE r \in rows : \A q \in rows : r.id <= q.id
         IN  <<m>> \o order_by_id(rows \ {m})

\* SELECT * FROM todos ORDER BY id DESC ; fetchall()
sql_select_all_Desc(c) ==
    LET asc == order_by_id(c.work.rows)
    IN  [i \in 1..Len(asc) |-> asc[Len(asc) + 1 - i]]

\* SELECT * FROM todos ORDER BY id ; fetchall()
sql_select_all(c) == order_by_id(c.work.rows)

----------------------------------------------------------------------------
VARIABLES
    db,            \* the database file todos.db: [rows, seq]
    table_exists,  \* whether table todos exists in the file
    leaked,        \* the last call ended without closing the connection it opened
    ret,           \* the last call: operation, arguments, exception, return value
    pre,           \* history: the database file when the last call started
    returned,      \* history: the ids returned by add_todo, in call order
    out,           \* the last call, when it came through a tool of tools.py
    pc,            \* concurrent callers: the statement each caller is at
    local,         \* concurrent callers: the locals of the call in progress
    delete_returns \* history: per id, the delete_todo calls that returned it

vars == <<db, table_exists, leaked, ret, pre, returned, out,
          pc, local, delete_returns>>

\* The callers that use the store at the same time, each with its own
\* connection per call.
NumCallers == 2
Callers == 1..NumCallers

\* The locals of a caller between two calls.
NoCall ==
    [op |-> "none", id |-> 0, text |-> <<>>, row |-> None, tx |-> None,
     value |-> None, removed |-> None, matched |-> FALSE, wrote |-> FALSE]

\* No caller is inside a call.
AllIdle ==
    /\ pc = [p \in Callers |-> "idle"]
    /\ local = [p \in Callers |-> NoCall]
    /\ delete_returns = [i \in Ids |-> 0]

\* One caller, one call at a time.
sequential == UNCHANGED <<pc, local, delete_returns>>

Call(op, args, raised, value) ==
    [op |-> op, args |-> args, raised |-> raised, value |-> value]

\* The module was imported and init_db created the table in a fresh file.
Init ==
    /\ db = [rows |-> {}, seq |-> 0]
    /\ table_exists = TRUE
    /\ leaked = FALSE
    /\ ret = Call("init_db", <<>>, "none", None)
    /\ pre = db
    /\ returned = <<>>
    /\ out = None
    /\ AllIdle

\* The module was imported and init_db either created the table or raised
\* inside its try block, at connect or at CREATE TABLE: the error is logged,
\* the table is missing, and a connection that was opened is not closed.
InitMayFail ==
    /\ db = [rows |-> {}, seq |-> 0]
    /\ table_exists \in BOOLEAN
    /\ leaked \in (IF table_exists THEN {FALSE} ELSE BOOLEAN)
    /\ ret = Call("init_db", <<>>, "none", None)
    /\ pre = db
    /\ returned = <<>>
    /\ out = None
    /\ AllIdle

\* cursor.execute on a file without the table raises
\* sqlite3.OperationalError ("no such table: todos"); the handler has no
\* try/finally, so its conn.close() is never reached.
execute_raises(op, args) ==
    /\ ret' = Call(op, args, "OperationalError", None)
    /\ leaked' = TRUE

\* DROP TABLE IF EXISTS todos followed by CREATE TABLE todos.
sql_create_table_Recreate(c, exists) ==
    [c EXCEPT !.work = [rows |-> {}, seq |-> 0]]

\* CREATE TABLE IF NOT EXISTS todos (...): nothing when the table is there.
sql_create_table(c, exists) ==
    IF exists THEN c ELSE [c EXCEPT !.work = [rows |-> {}, seq |-> 0]]

\* init_db(): every exception is caught and logged, none is raised.  On a
\* file whose table is missing the fault that kept it from being created may
\* still be there.
init_db ==
    /\ pre' = db
    /\ ret' = Call("init_db", <<>>, "none", None)
    /\ UNCHANGED returned
    /\ \/ /\ db' = close(commit(sql_create_table(connect(db), table_exists)))
          /\ table_exists' = TRUE
          /\ leaked' = FALSE
       \/ /\ ~table_exists
          /\ leaked' \in BOOLEAN
          /\ UNCHANGED <<db, table_exists>>

\* add_todo(text)
add_todo(text) ==
    LET validated_input == TodoSchema(text, {})
        c1 == sql_insert(connect(db), validated_input.title)
        c2 == commit(c1)
        args == [text |-> text]
    IN  /\ pre' = db
        /\ UNCHANGED table_exists
        /\ IF ~validated_input.ok
           THEN /\ ret' = Call("add_todo", args, "ValidationError", None)
                /\ leaked' = FALSE
                /\ UNCHANGED <<db, returned>>
           ELSE IF ~table_exists
           THEN /\ execute_raises("add_todo", args)
                /\ UNCHANGED <<db, returned>>
           ELSE /\ db.seq < MaxId
                /\ db' = close(c2)
                /\ ret' = Call("add_todo", args, "none",
                               [lastInsertRowid |-> c1.lastrowid])
                /\ returned' = Append(returned, c1.lastrowid)
                /\ leaked' = FALSE

\* list_todos() with the storage error caught and [] returned.
list_todos_SwallowError ==
    LET c == connect(db)
        rows == sql_select_all(c)
    IN  /\ pre' = db
        /\ db' = close(c)
        /\ ret' = Call("list_todos", <<>>, "none", rows)
        /\ leaked' = FALSE
        /\ UNCHANGED <<returned, table_exists>>

\* list_todos()
list_todos ==
    LET c == connect(db)
        rows == sql_select_all(c)
    IN  /\ pre' = db
        /\ UNCHANGED <<returned, table_exists>>
        /\ IF ~table_exists
           THEN /\ execute_raises("list_todos", <<>>)
                /\ UNCHANGED db
           ELSE /\ db' = close(c)
                /\ ret' = Call("list_todos", <<>>, "none", rows)
                /\ leaked' = FALSE

\* complete_todo(todo_id)
complete_todo(todo_id) ==
    LET c0 == connect(db)
        c1 == sql_set_completed(c0, todo_id)
        changes == c1.rowcount
        c2 == commit(c1)
        args == [todo_id |-> todo_id]
    IN  /\ pre' = db
        /\ UNCHANGED <<returned, table_exists>>
        /\ IF ~table_exists
           THEN /\ execute_raises("complete_todo", args)
                /\ UNCHANGED db
           ELSE /\ db' = close(c2)
                /\ ret' = Call("complete_todo", args, "none", [changes |-> changes])
                /\ leaked' = FALSE

\* delete_todo(todo_id)
delete_todo(todo_id) ==
    LET c0 == connect(db)
        row == sql_select_one(c0, todo_id)
        c1 == commit(sql_delete(c0, todo_id))
        args == [todo_id |-> todo_id]
    IN  /\ pre' = db
        /\ UNCHANGED <<returned, table_exists>>
        /\ IF ~table_exists
           THEN /\ execute_raises("delete_todo", args)
                /\ UNCHANGED db
           ELSE /\ leaked' = FALSE
                /\ IF row # None
                   THEN /\ db' = close(c1)
                        /\ ret' = Call("delete_todo", args, "none", row)
                   ELSE /\ db' = close(c0)
                        /\ ret' = Call("delete_todo", args, "none", None)

\* update_todo_text with conn.commit() left out before conn.close().
update_todo_text_NoCommit(todo_id, text) ==
    LET validated_input == TodoSchema(text, {todo_id})
        c0 == connect(db)
        c1 == sql_set_text(c0, validated_input.title, todo_id)
        row == sql_select_one(c1, todo_id)
        args == [todo_id |-> todo_id, text |-> text]
    IN  /\ pre' = db
        /\ UNCHANGED <<returned, table_exists>>
        /\ IF ~validated_input.ok
           THEN /\ ret' = Call("update_todo_text", args, "ValidationError", None)
                /\ leaked' = FALSE
                /\ UNCHANGED db
           ELSE IF ~table_exists
           THEN /\ execute_raises("update_todo_text", args)
                /\ UNCHANGED db
           ELSE /\ db' = close(c1)
                /\ ret' = Call("update_todo_text", args, "none",
                               IF c1.rowcount > 0 THEN row ELSE None)
                /\ leaked' = FALSE

\* update_todo_text(todo_id, text)
update_todo_text(todo_id, text) ==
    LET validated_input == TodoSchema(text, {todo_id})
        c0 == connect(db)
        c1 == sql_set_text(c0, validated_input.title, todo_id)
        row == sql_select_one(c1, todo_id)
        c2 == commit(c1)
        args == [todo_id |-> todo_id, text |-> text]
    IN  /\ pre' = db
        /\ UNCHANGED <<returned, table_exists>>
        /\ IF ~validated_input.ok
           THEN /\ ret' = Call("update_todo_text", args, "ValidationError", None)
                /\ leaked' = FALSE
                /\ UNCHANGED db
           ELSE IF ~table_exists
           THEN /\ execute_raises("update_todo_text", args)
                /\ UNCHANGED db
           ELSE /\ leaked' = FALSE
                /\ IF c1.rowcount > 0
                   THEN /\ db' = close(c2)
                        /\ ret' = Call("update_todo_text", args, "none", row)
                   ELSE /\ db' = close(c1)
                        /\ ret' = Call("update_todo_text", args, "none", None)

\* f"TODO with id {id} not found."
not_found(id) == [fmt |-> "TODO with id {id} not found.", id |-> id]

\* "not row": None is falsy, the dict of a row (three keys) is truthy.
falsy(row) == row = None

\* complete_todo_tool with "if not info": the dict is never falsy.
complete_todo_tool_result_NotInfo(id, info) ==
    <<[fmt |-> "TODO with id {id} marked as completed.", id |-> id]>>

\* complete_todo_tool: the message built from complete_todo's result.
complete_todo_tool_result(id, info) ==
    IF info.changes = 0
    THEN <<not_found(id)>>
    ELSE <<[fmt |-> "TODO with id {id} marked as completed.", id |-> id]>>

\* delete_todo_tool: the message built from delete_todo's result.
delete_todo_tool_result(id, row) ==
    IF falsy(row)
    THEN <<not_found(id)>>
    ELSE <<[fmt |-> "Deleted TODO: {row['text']} (id: {id})",
            text |-> row.text, id |-> id]>>

\* update_todo_text_tool: the message built from update_todo_text's result;
\* it quotes the text as passed.
update_todo_text_tool_result(id, text, row) ==
    IF falsy(row)
    THEN <<not_found(id)>>
    ELSE <<[fmt |-> "Updated text for todo with id {id} to \"{text}\"",
            id |-> id, text |-> text]>>

\* A tool has no try/except: what the core raises leaves the tool as it is.
tool_call(tool, args, value) ==
    /\ IF ret'.raised # "none"
       THEN out' = Call(tool, args, ret'.raised, None)
       ELSE out' = Call(tool, args, "none", value)
    /\ sequential

\* complete_todo_tool(id)
complete_todo_tool(id) ==
    /\ complete_todo(id)
    /\ tool_call("complete_todo_tool", [id |-> id],
                 complete_todo_tool_result(id, ret'.value))

\* delete_todo_tool(id)
delete_todo_tool(id) ==
    /\ delete_todo(id)
    /\ tool_call("delete_todo_tool", [id |-> id],
                 delete_todo_tool_result(id, ret'.value))

\* update_todo_text_tool(id, text)
update_todo_text_tool(id, text) ==
    /\ update_todo_text(id, text)
    /\ tool_call("update_todo_text_tool", [id |-> id, text |-> text],
                 update_todo_text_tool_result(id, text, ret'.value))

\* A call made on the core directly, not through a tool.
direct == out' = None /\ sequential

Next ==
    \/ init_db /\ direct
    \/ \E text \in Texts : add_todo(text) /\ direct
    \/ list_todos /\ direct
    \/ \E todo_id \in Ids : complete_todo(todo_id) /\ direct
    \/ \E todo_id \in Ids : delete_todo(todo_id) /\ direct
    \/ \E todo_id \in Ids, text \in Texts : update_todo_text(todo_id, text) /\ direct
    \/ \E id \in Ids : complete_todo_tool(id)
    \/ \E id \in Ids : delete_todo_tool(id)
    \/ \E id \in Ids, text \in Texts : update_todo_text_tool(id, text)

\* The store in working order.
Spec == Init /\ [][Next]_vars

\* The store as the import left it, table created or not.
SpecDegraded == InitMayFail /\ [][Next]_vars

----------------------------------------------------------------------------
\* Concurrent callers.  Each call opens its own connection.  A SELECT outside
\* a transaction reads the committed file.  INSERT, UPDATE and DELETE open a
\* transaction implicitly and take the file's write lock, which commit() or
\* close() gives back; a second writer waits for it.  Inside its transaction
\* a connection reads its own working copy.

\* Bound of the concurrent model: the callers contend for the records with
\* the first MaxConcurrentId ids.
MaxConcurrentId == 1

\* The texts and ids the concurrent callers pass: the valid ones.
ValidTexts == {t \in Texts : TodoSchema(t, {}).ok}
PositiveIds == 1..MaxConcurrentId

\* What a statement of caller p reads.
conn_view(p) == IF local[p].tx = None THEN db ELSE local[p].tx

\* Another caller holds the write lock.
write_locked(p) == \E q \in Callers \ {p} : local[q].tx # None

calls == UNCHANGED <<table_exists, leaked, ret, pre, returned, out>>

\* add_todo(text), lines 50-58: INSERT and commit.
c_add_todo(p, text) ==
    LET c1 == sql_insert(connect(db), TodoSchema(text, {}).title)
    IN  /\ pc[p] = "idle"
        /\ ~write_locked(p)
        /\ db.seq < MaxConcurrentId
        /\ db' = close(commit(c1))
        /\ UNCHANGED <<pc, local, delete_returns>>
        /\ calls

\* complete_todo(todo_id), lines 76-82: UPDATE and commit.
c_complete_todo(p, todo_id) ==
    LET c1 == sql_set_completed(connect(db), todo_id)
    IN  /\ pc[p] = "idle"
        /\ ~write_locked(p)
        /\ db' = close(commit(c1))
        /\ UNCHANGED <<pc, local, delete_returns>>
        /\ calls

\* delete_todo(todo_id), lines 88-94: the SELECT; without a row the call
\* closes and returns None (lines 102-103).
c_delete_select(p, todo_id) ==
    LET row == sql_select_one(connect(conn_view(p)), todo_id)
    IN  /\ pc[p] = "idle"
        /\ IF row # None
           THEN /\ pc' = [pc EXCEPT ![p] = "delete_selected"]
                /\ local' = [local EXCEPT ![p] =
                      [NoCall EXCEPT !.op = "delete_todo", !.id = todo_id,
                                     !.row = row]]
           ELSE UNCHANGED <<pc, local>>
        /\ UNCHANGED <<db, delete_returns>>
        /\ calls

\* delete_todo, lines 96-100: DELETE, commit, close, return dict(row).
c_delete_execute(p) ==
    LET c0 == connect(db)
        c1 == sql_delete(c0, local[p].id)
    IN  /\ pc[p] = "delete_selected"
        /\ ~write_locked(p)
        /\ db' = close(commit(c1))
        /\ pc' = [pc EXCEPT ![p] = "delete_returned"]
        /\ local' = [local EXCEPT ![p].value = local[p].row,
                                  ![p].removed = sql_select_one(c0, local[p].id)]
        /\ delete_returns' =
              [delete_returns EXCEPT ![local[p].id] = delete_returns[local[p].id] + 1]
        /\ calls

\* update_todo_text with the UPDATE committed at once (autocommit): the
\* write lock is given back before the SELECT.
c_update_execute_Autocommit(p, todo_id, text) ==
    LET c1 == sql_set_text(connect(db), TodoSchema(text, {todo_id}).title, todo_id)
    IN  /\ pc[p] = "idle"
        /\ ~write_locked(p)
        /\ db' = close(commit(c1))
        /\ IF c1.rowcount > 0
           THEN /\ pc' = [pc EXCEPT ![p] = "update_written"]
                /\ local' = [local EXCEPT ![p] =
                      [NoCall EXCEPT !.op = "update_todo_text", !.id = todo_id,
                                     !.text = text, !.matched = TRUE,
                                     !.wrote = TRUE]]
           ELSE /\ pc' = [pc EXCEPT ![p] = "update_returned"]
                /\ local' = [local EXCEPT ![p] =
                      [NoCall EXCEPT !.op = "update_todo_text", !.id = todo_id,
                                     !.text = text]]
        /\ UNCHANGED delete_returns
        /\ calls

\* update_todo_text(todo_id, text), lines 110-118: validation, then the
\* UPDATE, which opens the transaction; with rowcount 0 the call closes
\* without commit and returns None (lines 125-126).
c_update_execute(p, todo_id, text) ==
    LET c1 == sql_set_text(connect(db), TodoSchema(text, {todo_id}).title, todo_id)
    IN  /\ pc[p] = "idle"
        /\ ~write_locked(p)
        /\ IF c1.rowcount > 0
           THEN /\ pc' = [pc EXCEPT ![p] = "update_written"]
                /\ local' = [local EXCEPT ![p] =
                      [NoCall EXCEPT !.op = "update_todo_text", !.id = todo_id,
                                     !.text = text, !.matched = TRUE,
                                     !.tx = c1.work]]
           ELSE /\ pc' = [pc EXCEPT ![p] = "update_returned"]
                /\ local' = [local EXCEPT ![p] =
                      [NoCall EXCEPT !.op = "update_todo_text", !.id = todo_id,
                                     !.text = text]]
        /\ UNCHANGED <<db, delete_returns>>
        /\ calls

\* update_todo_text, lines 119-120: the SELECT on the same connection.
c_update_select(p) ==
    /\ pc[p] = "update_written"
    /\ pc' = [pc EXCEPT ![p] = "update_selected"]
    /\ local' = [local EXCEPT ![p].row =
                    sql_select_one(connect(conn_view(p)), local[p].id)]
    /\ UNCHANGED <<db, delete_returns>>
    /\ calls

\* update_todo_text, lines 121-123: commit, close, return the row or None.
c_update_commit(p) ==
    /\ pc[p] = "update_selected"
    /\ db' = conn_view(p)
    /\ pc' = [pc EXCEPT ![p] = "update_returned"]
    /\ local' = [local EXCEPT ![p].tx = None,
                              ![p].value = local[p].row,
                              ![p].wrote = (local[p].wrote \/ local[p].tx # None)]
    /\ UNCHANGED delete_returns
    /\ calls

\* The caller has its result and is free for the next call.
c_return(p) ==
    /\ pc[p] \in {"delete_returned", "update_returned"}
    /\ pc' = [pc EXCEPT ![p] = "idle"]
    /\ local' = [local EXCEPT ![p] = NoCall]
    /\ UNCHANGED <<db, delete_returns>>
    /\ calls

NextConcurrent ==
    \E p \in Callers :
        \/ \E text \in ValidTexts : c_add_todo(p, text)
        \/ \E todo_id \in PositiveIds : c_complete_todo(p, todo_id)
        \/ \E todo_id \in PositiveIds : c_delete_select(p, todo_id)
        \/ c_delete_execute(p)
        \/ \E todo_id \in PositiveIds, text \in ValidTexts :
              c_update_execute(p, todo_id, text)
        \/ c_update_select(p)
        \/ c_update_commit(p)
        \/ c_return(p)

\* Callers that run their calls at the same time on a working store.
SpecConcurrent == Init /\ [][NextConcurrent]_vars

----------------------------------------------------------------------------
\* Vocabulary of the properties.

\* The call that led to the current state.
Called(op) == ret.op = op
Returned(op) == ret.op = op /\ ret.raised = "none"
Raised(op, err) == ret.op = op /\ ret.raised = err

\* What list_todos() would return before and after the last call.
ListedBefore == order_by_id(pre.rows)
ListedAfter == order_by_id(db.rows)

\* The text is empty, only whitespace, or longer than 255 characters.
InvalidText(t) == t = <<>> \/ strip(t) = <<>> \/ len(t) > MAX_LENGTH

\* The record with id i among rows (i is known to be there).
RowOf(rows, i) == CHOOSE r \in rows : r.id = i

\* What add_todo(t) must have done: one new record, trimmed text, not
\* completed, every earlier record still listed.
AddedExactlyOne(t) ==
    LET new == Range(ListedAfter) \ Range(ListedBefore)
    IN  /\ ret.raised = "none"
        /\ Cardinality(new) = 1
        /\ Len(ListedAfter) = Len(ListedBefore) + 1
        /\ \A r \in new : /\ r.text = strip(t)
                          /\ r.completed = 0
                          /\ r.id \notin RowIds(pre)
                          /\ r.id = ret.value.lastInsertRowid
        /\ Range(ListedBefore) \subseteq Range(ListedAfter)

\* C1 as stated: for every text t with 1 <= len(trim(t)) <= 255, add_todo(t)
\* succeeds and list_todos() then shows exactly one new record with the
\* trimmed text, not completed.
C1_AddTrimmedLengthValid ==
    (Called("add_todo") /\ len(strip(ret.args.text)) >= MIN_LENGTH
                        /\ len(strip(ret.args.text)) <= MAX_LENGTH)
        => AddedExactlyOne(ret.args.text)

\* C1 (amended): for every text t with len(t) <= 255 and len(trim(t)) >= 1,
\* add_todo(t) succeeds and list_todos() afterwards contains exactly one
\* record that was not there before, with text = trim(t) and completed = 0,
\* all earlier records still listed.
C1_AddValid ==
    (Called("add_todo") /\ len(ret.args.text) <= MAX_LENGTH
                        /\ len(strip(ret.args.text)) >= MIN_LENGTH)
        => AddedExactlyOne(ret.args.text)

\* An add of a text with surrounding whitespace to a store that has records.
C1_Witness ==
    /\ Returned("add_todo")
    /\ ret.args.text # strip(ret.args.text)
    /\ pre.rows # {}

\* C2: add_todo(t) raises a validation error when t is empty, only
\* whitespace, or longer than 255 characters, and the database file (rows and
\* id counter) is the same before and after the call.
C2_AddInvalid ==
    (Called("add_todo") /\ InvalidText(ret.args.text))
        => (ret.raised = "ValidationError" /\ db = pre)

\* A refused over-long add on a store that has records.
C2_Witness ==
    /\ Raised("add_todo", "ValidationError")
    /\ len(ret.args.text) > MAX_LENGTH
    /\ strip(ret.args.text) # <<>>
    /\ pre.rows # {}

\* C3: every id returned by add_todo is positive and greater than every id
\* add_todo returned before, deleted ones included; an id that left the
\* table never shows up in it again.
C3_IdsNeverReused ==
    /\ \A k \in 1..Len(returned) :
          /\ returned[k] > 0
          /\ \A j \in 1..(k - 1) : returned[j] < returned[k]
    /\ Returned("add_todo") => ret.value.lastInsertRowid = returned[Len(returned)]
    /\ \A i \in RowIds(db) \ RowIds(pre) :
          /\ Returned("add_todo")
          /\ i = returned[Len(returned)]
          /\ i \notin Range(SubSeq(returned, 1, Len(returned) - 1))

\* An add into a table that a delete had emptied.
C3_Witness ==
    /\ Returned("add_todo")
    /\ Len(returned) >= 2
    /\ pre.rows = {}

\* C4: list_todos() returns exactly the persisted records, each once, in
\* strictly ascending id order, and the empty sequence on an empty table; it
\* raises nothing.
C4_ListOrdered ==
    Called("list_todos") =>
        /\ ret.raised = "none"
        /\ Range(ret.value) = db.rows
        /\ Len(ret.value) = Cardinality(db.rows)
        /\ \A i, j \in 1..Len(ret.value) : i < j => ret.value[i].id < ret.value[j].id
        /\ db.rows = {} => ret.value = <<>>

\* A listing of two or more records whose ids have a gap.
C4_Witness ==
    /\ Returned("list_todos")
    /\ Len(ret.value) >= 2
    /\ ret.value[2].id > ret.value[1].id + 1

\* C5: complete_todo(id) on an existing id returns changes = 1 and leaves the
\* record completed; on a record that is already completed it again returns
\* changes = 1 and the store stays as it was.
C5_CompleteExisting ==
    (Called("complete_todo") /\ ret.args.todo_id \in RowIds(pre)) =>
        /\ ret.raised = "none"
        /\ ret.value.changes = 1
        /\ ret.args.todo_id \in RowIds(db)
        /\ RowOf(db.rows, ret.args.todo_id).completed = 1
        /\ RowOf(pre.rows, ret.args.todo_id).completed = 1 => db = pre

\* A second complete_todo of a record that was already completed.
C5_Witness ==
    /\ Returned("complete_todo")
    /\ ret.args.todo_id \in RowIds(pre)
    /\ RowOf(pre.rows, ret.args.todo_id).completed = 1

\* C6: complete_todo(id) on an id that is not in the store returns
\* changes = 0, raises nothing, and leaves the database file unchanged.
C6_CompleteAbsent ==
    (Called("complete_todo") /\ ret.args.todo_id \notin RowIds(pre)) =>
        /\ ret.raised = "none"
        /\ ret.value.changes = 0
        /\ db = pre

\* complete_todo of a deleted id while an open record is in the store.
C6_Witness ==
    /\ Returned("complete_todo")
    /\ ret.args.todo_id \notin RowIds(pre)
    /\ ret.args.todo_id \in Range(returned)
    /\ \E r \in pre.rows : r.completed = 0

\* C7: completed is one-directional: a record enters the table with
\* completed = 0, only complete_todo of that id turns it to 1, and a record
\* that has completed = 1 keeps it in every step that keeps the record.
C7_CompletedOneWay ==
    [][\A r \in db'.rows :
          /\ r.id \notin RowIds(db) => r.completed = 0
          /\ \A p \in db.rows :
                p.id = r.id =>
                   /\ p.completed = 1 => r.completed = 1
                   /\ (p.completed = 0 /\ r.completed = 1) =>
                         (ret'.op = "complete_todo" /\ ret'.args.todo_id = r.id)]_vars

\* The text of a completed record was updated.
C7_Witness ==
    /\ Returned("update_todo_text")
    /\ ret.value # None
    /\ ret.value.completed = 1
    /\ RowOf(pre.rows, ret.args.todo_id).text # ret.value.text

\* C8: delete_todo(id) on an existing id returns the record as it was just
\* before the call, and list_todos() then has no record with that id;
\* delete_todo(id) of an id that is gone returns None, raises nothing and
\* changes nothing.
C8_Delete ==
    Called("delete_todo") =>
        /\ ret.raised = "none"
        /\ ret.args.todo_id \in RowIds(pre) =>
              /\ ret.value = RowOf(pre.rows, ret.args.todo_id)
              /\ \A k \in 1..Len(ListedAfter) : ListedAfter[k].id # ret.args.todo_id
        /\ ret.args.todo_id \notin RowIds(pre) =>
              /\ ret.value = None
              /\ db = pre

\* A second delete_todo of an id that add_todo had assigned, with other
\* records left in the store.
C8_Witness ==
    /\ Returned("delete_todo")
    /\ ret.value = None
    /\ ret.args.todo_id \in Range(returned)
    /\ db.rows # {}

\* C9: update_todo_text(id, newText) with valid newText on an existing id
\* stores trim(newText) as the record's text, keeps its id and completed,
\* commits, and returns the updated record.
C9_UpdateText ==
    (Called("update_todo_text") /\ ~InvalidText(ret.args.text)
                                /\ ret.args.todo_id \in RowIds(pre)) =>
        /\ ret.raised = "none"
        /\ ret.value = [id        |-> ret.args.todo_id,
                        text      |-> strip(ret.args.text),
                        completed |-> RowOf(pre.rows, ret.args.todo_id).completed]
        /\ ret.value \in db.rows
        /\ Cardinality(db.rows) = Cardinality(pre.rows)

\* An update of a completed record with a text that needed trimming.
C9_Witness ==
    /\ Returned("update_todo_text")
    /\ ret.args.todo_id \in RowIds(pre)
    /\ RowOf(pre.rows, ret.args.todo_id).completed = 1
    /\ ret.args.text # strip(ret.args.text)
    /\ RowOf(pre.rows, ret.args.todo_id).text # strip(ret.args.text)

\* C10: update_todo_text(id, newText) with empty, whitespace-only or
\* over-long newText raises a validation error whether or not a record with
\* that id exists, and the database file is unchanged.
C10_UpdateInvalid ==
    (Called("update_todo_text") /\ InvalidText(ret.args.text))
        => (ret.raised = "ValidationError" /\ db = pre)

\* A refused whitespace-only update of an id that has no record.
C10_Witness ==
    /\ Raised("update_todo_text", "ValidationError")
    /\ ret.args.text # <<>>
    /\ strip(ret.args.text) = <<>>
    /\ ret.args.todo_id > 0
    /\ ret.args.todo_id \notin RowIds(pre)
    /\ pre.rows # {}

\* The five operations of the store.
Operations ==
    {"add_todo", "list_todos", "complete_todo", "delete_todo", "update_todo_text"}

\* The last call named an id that had no record when it started.
AbsentId == ret.args.todo_id \notin RowIds(pre)

\* C11 as stated: for every integer id without a record, 0 and negative ids
\* included, and valid text, complete_todo returns changes = 0, delete_todo
\* returns None, update_todo_text returns None, and none of them raises.
C11_NotFoundNeverRaises ==
    /\ (Called("complete_todo") /\ AbsentId) =>
          (ret.raised = "none" /\ ret.value.changes = 0)
    /\ (Called("delete_todo") /\ AbsentId) =>
          (ret.raised = "none" /\ ret.value = None)
    /\ (Called("update_todo_text") /\ AbsentId /\ ~InvalidText(ret.args.text)) =>
          (ret.raised = "none" /\ ret.value = None)

\* C11 (amended): for every integer id without a record complete_todo
\* returns changes = 0 and delete_todo returns None, and for every positive
\* id without a record and valid text update_todo_text returns None, none of
\* them raising; update_todo_text with an id of 0 or below raises a
\* validation error.
C11_NotFoundPositiveId ==
    /\ (Called("complete_todo") /\ AbsentId) =>
          (ret.raised = "none" /\ ret.value.changes = 0)
    /\ (Called("delete_todo") /\ AbsentId) =>
          (ret.raised = "none" /\ ret.value = None)
    /\ (Called("update_todo_text") /\ AbsentId /\ ~InvalidText(ret.args.text)) =>
          IF ret.args.todo_id > 0
          THEN ret.raised = "none" /\ ret.value = None
          ELSE ret.raised = "ValidationError" /\ db = pre

\* update_todo_text with valid text for a positive id that has no record,
\* on a store that has records.
C11_Witness ==
    /\ Returned("update_todo_text")
    /\ AbsentId
    /\ ret.args.todo_id > 0
    /\ ~InvalidText(ret.args.text)
    /\ pre.rows # {}

\* C12: each of the five operations has closed the connection it opened when
\* it has returned or raised, a raising storage statement included.
C12_ConnectionsReleased ==
    ret.op \in Operations => ~leaked

\* C14: every persisted text is non-empty, has no leading or trailing
\* whitespace and is at most 255 characters long, whatever add_todo and
\* update_todo_text calls, successful or refused, came before.
C14_PersistedTextNormal ==
    \A r \in db.rows :
        /\ r.text # <<>>
        /\ len(r.text) >= MIN_LENGTH
        /\ len(r.text) <= MAX_LENGTH
        /\ Head(r.text).c \notin Whitespace
        /\ r.text[Len(r.text)].c \notin Whitespace

\* A refused update of a record, in a store that holds a text passed with
\* surrounding whitespace and one of full length.
C14_Witness ==
    /\ Raised("update_todo_text", "ValidationError")
    /\ ret.args.todo_id \in RowIds(db)
    /\ \E r \in db.rows : len(r.text) = MAX_LENGTH
    /\ \E r \in db.rows : \E t \in Texts : t # strip(t) /\ r.text = strip(t)

\* C15: init_db invoked again leaves every record and the id counter as they
\* were, so the next id add_todo assigns is still greater than every id
\* assigned before.
C15_InitIdempotent ==
    Called("init_db") =>
        /\ db = pre
        /\ ret.raised = "none"
        /\ \A k \in 1..Len(returned) : returned[k] < next_rowid(db)

\* init_db run again on a store that holds a record and has deleted one.
C15_Witness ==
    /\ Called("init_db")
    /\ pre.rows # {}
    /\ Len(returned) > Cardinality(pre.rows)
    /\ table_exists

\* C16: init_db raises nothing when it fails, and while the table is missing
\* every add, list, complete, delete and updateText call with valid input
\* raises a storage error and returns nothing.
C16_DegradedMode ==
    /\ Called("init_db") => ret.raised = "none"
    /\ (/\ ~table_exists
        /\ ret.op \in Operations
        /\ ret.op \in {"add_todo", "update_todo_text"} => ~InvalidText(ret.args.text)
        /\ ret.op = "update_todo_text" => ret.args.todo_id > 0)
       => (ret.raised = "OperationalError" /\ ret.value = None /\ db = pre)

\* add_todo with valid text on a file whose table is missing.
C16_Witness ==
    /\ ~table_exists
    /\ Called("add_todo")
    /\ ~InvalidText(ret.args.text)
    /\ ret.raised # "none"

\* C18: complete_todo(i), delete_todo(i) and update_todo_text(i, t) leave
\* every record with another id as it was and bring no record in; add_todo
\* leaves every existing record as it was.
C18_Frame ==
    /\ ret.op \in {"complete_todo", "delete_todo", "update_todo_text"} =>
          /\ \A r \in pre.rows : r.id # ret.args.todo_id => r \in db.rows
          /\ \A r \in db.rows : r.id # ret.args.todo_id => r \in pre.rows
    /\ Called("add_todo") => pre.rows \subseteq db.rows

\* An update of one record of a store that holds others.
C18_Witness ==
    /\ Returned("update_todo_text")
    /\ ret.value # None
    /\ ret.value \notin pre.rows
    /\ Cardinality(pre.rows) >= 2

\* The tools that report "not found".
Tools == {"complete_todo_tool", "delete_todo_tool", "update_todo_text_tool"}

\* The message a tool returns when it found the record.
SuccessMessage ==
    IF out.op = "complete_todo_tool"
    THEN [fmt |-> "TODO with id {id} marked as completed.", id |-> out.args.id]
    ELSE IF out.op = "delete_todo_tool"
    THEN [fmt |-> "Deleted TODO: {row['text']} (id: {id})",
          text |-> RowOf(pre.rows, out.args.id).text, id |-> out.args.id]
    ELSE [fmt |-> "Updated text for todo with id {id} to \"{text}\"",
          id |-> out.args.id, text |-> out.args.text]

\* C17: complete_todo_tool, delete_todo_tool and update_todo_text_tool raise
\* exactly what the core call raised and build no message from it; when the
\* core call returned they answer 'TODO with id <id> not found.' exactly when
\* no record with that id existed at the call, and their success message
\* otherwise, complete_todo_tool on a completed record included.
C17_ToolsTellNotFound ==
    (out # None /\ out.op \in Tools) =>
        /\ out.raised = ret.raised
        /\ out.raised # "none" => out.value = None
        /\ out.raised = "none" =>
              /\ (out.value = <<not_found(out.args.id)>>)
                    <=> (out.args.id \notin RowIds(pre))
              /\ out.args.id \in RowIds(pre) => out.value = <<SuccessMessage>>

\* complete_todo_tool on a record that was already completed.
C17_Witness ==
    /\ out # None
    /\ out.op = "complete_todo_tool"
    /\ out.raised = "none"
    /\ out.args.id \in RowIds(pre)
    /\ RowOf(pre.rows, out.args.id).completed = 1

\* C13: with concurrent callers the record delete_todo returns is the record
\* as its DELETE removed it, and no id is returned as deleted by more than one
\* delete_todo call.
C13_DeleteAtomic ==
    /\ \A p \in Callers :
          pc[p] = "delete_returned" => local[p].value = local[p].removed
    /\ \A i \in DOMAIN delete_returns : delete_returns[i] <= 1

\* C19: with concurrent callers update_todo_text runs its UPDATE and its
\* SELECT inside one write transaction that no other writer shares; a record
\* it returns has the id and the trimmed text of this call and existed when
\* the UPDATE ran; when it returns None the call committed nothing.
C19_UpdateReturnsOwnWrite ==
    \A p \in Callers :
        /\ pc[p] \in {"update_written", "update_selected"} =>
              (local[p].tx # None /\ ~write_locked(p))
        /\ pc[p] = "update_returned" =>
              /\ local[p].value # None =>
                    /\ local[p].value.id = local[p].id
                    /\ local[p].value.text = strip(local[p].text)
                    /\ local[p].matched
                    /\ local[p].wrote
              /\ local[p].value = None => ~local[p].wrote

\* update_todo_text has returned its record while another caller, inside
\* delete_todo, still holds the record with the text from before the update.
C19_Witness ==
    \E p, q \in Callers :
        /\ p # q
        /\ pc[p] = "update_returned"
        /\ local[p].value # None
        /\ local[p].text # strip(local[p].text)
        /\ pc[q] = "delete_selected"
        /\ local[q].id = local[p].id
        /\ local[q].row.text # local[p].value.text

====
